---- MODULE Spec2Model ----
(***************************************************************************)
(* Model of reddit_streak.py: the vote flow run_upvote_flow (session       *)
(* bootstrap, streak gate, listing selection, upvote, wait, reversal,      *)
(* streak recheck, teardown) driven by the caller in main.                 *)
(*                                                                         *)
(* The web pages the flow looks at are inputs: each navigation draws the   *)
(* page content from a small catalogue of elements, and every locator of   *)
(* the source is an operator over the attributes its selector reads.       *)
(***************************************************************************)
EXTENDS Integers, Sequences, FiniteSets, TLC

VARIABLES
    config,           \* the configuration as run_upvote_flow resolves it
    pc,               \* position of the single thread of control
    run,              \* number of calls of run_upvote_flow so far
    pathExists,       \* cookies_path.exists() as this run saw it
    strategy,         \* authentication branch taken by this run ("none" before)
    attempted,        \* set of authentication branches entered by this run
    cookies,          \* number of cookies the loader returned (-1: not loaded)
    injected,         \* number of cookies handed to context.add_cookies
    browser,          \* "none" | "open" | "closed" | "killed"
    context,          \* "none" | "open" | "closed" | "killed"
    closeLog,         \* explicit close() calls of this run, in order
    beforeCheck,      \* outcome of the gating streak check
    afterCheck,       \* outcome of the streak recheck
    upvotes,          \* the list `upvotes` of listing candidates
    listingStrategy,  \* which listing locator produced `upvotes` (0: none)
    choice,           \* index drawn by random.randint (-1: not drawn)
    target,           \* the post whose permalink was opened ("none" before)
    postPage,         \* controls of the opened post page, in document order
    upvoteStrategy,   \* which post-page upvote locator matched (0: none, -1: not run)
    reversalStrategy, \* which reversal locator matched (0: none, -1: not run)
    voted,            \* site state: entities the account currently upvotes
    navLog,           \* page.goto calls of this run, in order
    clickLog,         \* click() calls of this run, in order
    logged,           \* notable log lines of this run
    result,           \* "none" | "true" | "false" | "raised"
    wait_seconds,     \* the wait drawn by this run (-1: none drawn)
    draws,            \* number of waits this run has drawn
    slept,            \* seconds slept between the upvote and the removal (-1: none)
    input,            \* the arguments of a call of one of the helper functions
    output,           \* what that call returned (NotCalled before it ran)
    schedule,         \* what main reads from the configuration: run_now, run_time
    now,              \* wall-clock time in seconds since midnight of the first day
    mpc,              \* position of main: "off" | "poll" | "flow" | "cooldown" | "sleep" | "exit"
    inFlight,         \* calls of run_upvote_flow that have not returned
    starts,           \* calls of run_upvote_flow made by main so far
    lastMinute,       \* the minute (now \div 60) of the latest call, -1 before
    sameMinute,       \* TRUE once two calls were made in one and the same minute
    flowFrom,         \* the time of the latest call of run_upvote_flow, -1 before
    startedDays,      \* the days on which main called run_upvote_flow
    inFlightDays,     \* the days whose run_time minute had a call in flight
    cooldownDays      \* the days whose run_time minute fell between a call and the
                      \* first poll after it

vars == <<config, pc, run, pathExists, strategy, attempted, cookies, injected, browser,
          context, closeLog, beforeCheck, afterCheck, upvotes, listingStrategy,
          choice, target, postPage, upvoteStrategy, reversalStrategy, voted,
          navLog, clickLog, logged, result, wait_seconds, draws, slept, input, output,
          schedule, now, mpc, inFlight, starts, lastMinute, sameMinute,
          flowFrom, startedDays, inFlightDays, cooldownDays>>

flowVars == <<config, pc, run, pathExists, strategy, attempted, cookies, injected, browser,
              context, closeLog, beforeCheck, afterCheck, upvotes, listingStrategy,
              choice, target, postPage, upvoteStrategy, reversalStrategy, voted,
              navLog, clickLog, logged, result, wait_seconds, draws, slept>>
waitVars == <<wait_seconds, draws, slept>>
unitVars == <<input, output>>
schedVars == <<schedule, now, mpc, inFlight, starts, lastMinute, sameMinute,
               flowFrom, startedDays, inFlightDays, cooldownDays>>
dayVars == <<flowFrom, startedDays, inFlightDays, cooldownDays>>
authVars == <<pathExists, strategy, attempted, cookies, injected>>
sessionVars == <<browser, context, closeLog>>
listingVars == <<upvotes, listingStrategy, choice>>
postVars == <<target, postPage, upvoteStrategy, reversalStrategy>>
checkVars == <<beforeCheck, afterCheck>>

(***************************************************************************)
(* Bounds of the model.                                                    *)
(***************************************************************************)
MaxRuns == 2
MaxCookies == 1
MaxEntries == 4
MaxControls == 2
MaxRecords == 2
HoursPerDay == 2        \* the day is shortened to this many hours
MinutesPerHour == 3     \* and the hour to this many minutes
MaxDays == 2            \* main is followed for this many days

SeqsUpTo(S, n) == UNION {[1..k -> S] : k \in 0..n}

Min(a, b) == IF a < b THEN a ELSE b

Max(a, b) == IF a < b THEN b ELSE a

(***************************************************************************)
(* Python string operations used by the source.                            *)
(***************************************************************************)
\* s[i:j] for 1 <= i, j <= Len(s) (both ends included, ordinal from one)
Slice(s, i, j) == IF i > j THEN "" ELSE SubSeq(s, i, j)

\* sub in s
Contains(s, sub) ==
    \E i \in 1..(Len(s) - Len(sub) + 1) : Slice(s, i, i + Len(sub) - 1) = sub

\* s.startswith(prefix)
StartsWith(s, prefix) ==
    Len(s) >= Len(prefix) /\ Slice(s, 1, Len(prefix)) = prefix

UpperCase == "ABCDEFGHIJKLMNOPQRSTUVWXYZ"
LowerCase == "abcdefghijklmnopqrstuvwxyz"

LowerChar(c) ==
    IF \E i \in 1..Len(UpperCase) : Slice(UpperCase, i, i) = c
    THEN LET i == CHOOSE i \in 1..Len(UpperCase) : Slice(UpperCase, i, i) = c
         IN Slice(LowerCase, i, i)
    ELSE c

\* s.lower()
RECURSIVE Lower(_)
Lower(s) ==
    IF Len(s) = 0 THEN ""
    ELSE LowerChar(Slice(s, 1, 1)) \o Lower(Slice(s, 2, Len(s)))

(***************************************************************************)
(* Configuration.                                                          *)
(***************************************************************************)
\* Values of (wait_seconds_min, wait_seconds_max): equal, increasing and
\* decreasing, or the keys left out of the file.
WaitRanges ==
    { [given |-> TRUE, min |-> 2, max |-> 2],
      [given |-> TRUE, min |-> 2, max |-> 3],
      [given |-> TRUE, min |-> 3, max |-> 2],
      [given |-> FALSE, min |-> 0, max |-> 0] }

\* The configuration file as load_config reads it.
RawConfigs ==
    [subreddits : BOOLEAN,          \* TRUE: at least one subreddit is listed
     reddit_username : BOOLEAN,     \* TRUE: a non-blank username
     streak_check_url : BOOLEAN,    \* TRUE: an explicit non-blank URL
     test_mode : BOOLEAN,
     cookies_file : BOOLEAN,        \* TRUE: a path is configured
     use_chrome_cookies : {"absent", "True", "False"},
     wait : WaitRanges]             \* wait_seconds_min, wait_seconds_max

\* get_subreddits(config) is non-empty
get_subreddits(raw) == raw.subreddits

\* get_user_urls(config)[0] is non-empty: the explicit URL, or the one derived
\* from the username
get_user_urls(raw) == raw.streak_check_url \/ raw.reddit_username

\* What run_upvote_flow reads from the configuration (174, 186-188, 255)
Resolve(raw) ==
    [subreddits |-> get_subreddits(raw),
     streak_check_url |-> get_user_urls(raw),
     test_mode |-> raw.test_mode,
     cookies_file |-> raw.cookies_file,
     \* config.get("use_chrome_cookies", True)
     use_chrome_cookies |-> raw.use_chrome_cookies # "False",
     wait |-> raw.wait]

Configs == {Resolve(raw) : raw \in RawConfigs}

(***************************************************************************)
(* Cookie loaders (66-169).  A cookie is described by the fields the        *)
(* loaders compute (domain, sameSite, value); the other fields are copied.  *)
(***************************************************************************)
\* Sample domains, each with whether 'reddit.com' occurs in it and whether it
\* begins with a dot.
DomainSamples ==
    { [text |-> ".reddit.com", matches |-> TRUE, dotted |-> TRUE],
      [text |-> "reddit.com", matches |-> TRUE, dotted |-> FALSE],
      [text |-> "www.reddit.com", matches |-> TRUE, dotted |-> FALSE],
      [text |-> ".example.org", matches |-> FALSE, dotted |-> TRUE],
      [text |-> "", matches |-> FALSE, dotted |-> FALSE] }

\* A slip: the domain passed on as it was read.
DotDomain_asRead(domain) == domain

\* 80, 108-109, 160: the domain of the emitted cookie
DotDomain(domain) == IF StartsWith(domain, ".") THEN domain ELSE "." \o domain

\* Sample values of the sameSite field of an exported cookie (given: the key
\* is present and its value a string), each with the word it spells when
\* case is ignored.
SameSiteSamples ==
    { [given |-> FALSE, text |-> "", spells |-> "absent"],
      [given |-> TRUE, text |-> "no_restriction", spells |-> "no_restriction"],
      [given |-> TRUE, text |-> "strict", spells |-> "strict"],
      [given |-> TRUE, text |-> "lax", spells |-> "lax"],
      [given |-> TRUE, text |-> "Strict", spells |-> "strict"],
      [given |-> TRUE, text |-> "NO_RESTRICTION", spells |-> "no_restriction"],
      [given |-> TRUE, text |-> "Lax", spells |-> "lax"],
      [given |-> TRUE, text |-> "unspecified", spells |-> "unspecified"] }

\* 103, 118-122: `same_site_map[ss] if ss in same_site_map else "Lax"`; the
\* keys of the dictionary are compared as they are.
same_site_map(ss) ==
    IF ss.given /\ ss.text = "no_restriction" THEN "None"
    ELSE IF ss.given /\ ss.text = "strict" THEN "Strict"
    ELSE IF ss.given /\ ss.text = "lax" THEN "Lax"
    ELSE "Lax"

\* One entry of the exported JSON list: every sample domain with a plain
\* sameSite, and every sample sameSite with a plain domain.
JsonEntries ==
    {e \in [name : {"token"}, domain : DomainSamples, sameSite : SameSiteSamples] :
        e.domain.text = "reddit.com" \/ e.sameSite.text = "lax"}

\* 104-134: the records of the list whose domain contains domain_filter, in
\* order, each turned into a cookie
load_cookies_from_json(data) ==
    LET kept == SelectSeq(data, LAMBDA c : Contains(c.domain.text, "reddit.com")) IN
    [i \in 1..Len(kept) |->
        [name |-> kept[i].name,
         domain |-> DotDomain(kept[i].domain.text),
         sameSite |-> same_site_map(kept[i].sameSite)]]

\* 98-101: the file holds a list of entries or a single entry
JsonInputs ==
    {[fn |-> "load_cookies_from_json", data |-> d] : d \in SeqsUpTo(JsonEntries, MaxRecords)}

\* The characters str.strip() removes.
Whitespace == {" ", "\t", "\n", "\r"}

RECURSIVE LStrip(_)
LStrip(s) ==
    IF Len(s) > 0 /\ Slice(s, 1, 1) \in Whitespace THEN LStrip(Slice(s, 2, Len(s))) ELSE s

RECURSIVE RStrip(_)
RStrip(s) ==
    IF Len(s) > 0 /\ Slice(s, Len(s), Len(s)) \in Whitespace
    THEN RStrip(Slice(s, 1, Len(s) - 1))
    ELSE s

\* s.strip()
Strip(s) == RStrip(LStrip(s))

\* s.split(sep) for a separator of one character
RECURSIVE Split(_, _)
Split(s, sep) ==
    IF ~Contains(s, sep) THEN <<s>>
    ELSE LET i == CHOOSE i \in 1..Len(s) :
                    /\ Slice(s, i, i) = sep
                    /\ \A j \in 1..(i - 1) : Slice(s, j, j) # sep
         IN <<Slice(s, 1, i - 1)>> \o Split(Slice(s, i + 1, Len(s)), sep)

\* sep.join(parts)
RECURSIVE Join(_, _)
Join(sep, parts) ==
    IF Len(parts) = 0 THEN ""
    ELSE IF Len(parts) = 1 THEN parts[1]
    ELSE parts[1] \o sep \o Join(sep, Tail(parts))

\* Sample cookie values, tab characters in every position and the empty
\* value included.
ValueSamples == {"abc", "", "a\tb", "\tab", "ab\t", "a b"}

\* The lines of a cookies.txt: a cookie line with its seven fields (every
\* sample domain with a plain value, every sample value with a plain domain),
\* a line with six fields, a comment and an empty line.
NetscapeEntries ==
    {e \in [kind : {"cookie"}, domain : DomainSamples, value : ValueSamples] :
        e.domain.text = "reddit.com" \/ e.value = "abc"}
    \cup {[kind |-> "short",
           text |-> ".reddit.com" \o "\t" \o "TRUE" \o "\t" \o "/" \o "\t" \o "TRUE" \o "\t" \o "0" \o "\t" \o "token"],
          [kind |-> "comment", text |-> "# Netscape HTTP Cookie File"],
          [kind |-> "blank", text |-> ""]}

\* The line as `for line in f` yields it, with its line end.
LineText(e) ==
    (IF e.kind = "cookie"
     THEN e.domain.text \o "\t" \o "TRUE" \o "\t" \o "/" \o "\t" \o "TRUE" \o "\t" \o "0"
          \o "\t" \o "token" \o "\t" \o e.value
     ELSE e.text) \o "\n"

\* 143-168: what one line of the file adds to `cookies`
netscape_line(line) ==
    LET l == Strip(line) IN
    IF l = "" \/ StartsWith(l, "#") THEN << >>
    ELSE LET parts == Split(l, "\t") IN
         IF Len(parts) < 7 THEN << >>
         ELSE IF ~Contains(parts[1], "reddit.com") THEN << >>
         ELSE << [name |-> parts[6],
                  value |-> Join("\t", SubSeq(parts, 7, Len(parts))),
                  domain |-> DotDomain(parts[1]),
                  sameSite |-> "Lax"] >>

\* 140-169: the cookies of all lines, in order
RECURSIVE load_cookies_from_netscape_file(_)
load_cookies_from_netscape_file(lines) ==
    IF Len(lines) = 0 THEN << >>
    ELSE netscape_line(lines[1]) \o load_cookies_from_netscape_file(Tail(lines))

NetscapeInputs ==
    {[fn |-> "load_cookies_from_netscape_file", entries |-> es] :
        es \in SeqsUpTo(NetscapeEntries, MaxRecords)}

\* The cookie jar browser_cookie3 returns, or no jar: the import failed or
\* browser_cookie3.chrome raised.
ChromeJars ==
    {[available |-> FALSE, cookies |-> << >>]}
    \cup {[available |-> TRUE, cookies |-> cj] :
            cj \in SeqsUpTo([name : {"token"}, domain : DomainSamples], MaxRecords)}

\* 66-93: [] without a jar, otherwise one cookie for each cookie of the jar
load_cookies_from_chrome(jar) ==
    IF ~jar.available THEN << >>
    ELSE [i \in 1..Len(jar.cookies) |->
            [name |-> jar.cookies[i].name,
             domain |-> DotDomain(jar.cookies[i].domain.text),
             sameSite |-> "Lax"]]

ChromeInputs == {[fn |-> "load_cookies_from_chrome", jar |-> j] : j \in ChromeJars}

(***************************************************************************)
(* Authentication strategy (run_upvote_flow, the if/elif/else at 198-245). *)
(***************************************************************************)
\* The branch taken: `exists` is cookies_path.exists() at the time of the test.
SelectStrategy_chromeFirst(cfg, exists) ==
    IF cfg.use_chrome_cookies THEN "chrome"
    ELSE IF cfg.cookies_file /\ exists THEN "file"
    ELSE "profile"

SelectStrategy(cfg, exists) ==
    IF cfg.cookies_file /\ exists THEN "file"
    ELSE IF cfg.use_chrome_cookies THEN "chrome"
    ELSE "profile"

\* Whether a loader result of n cookies ends the run (line 225: only the
\* Chrome branch tests `if not cookies` and returns).
NoCookiesAborts_never(strat, n) == FALSE

NoCookiesAborts(strat, n) == strat = "chrome" /\ n = 0

(***************************************************************************)
(* Streak indicator (check_streak_on_page).  The image is described by the *)
(* substrings the classification looks for.                                *)
(***************************************************************************)
FireImages ==
    [src_fire_faded : BOOLEAN,       \* "fire-faded" in src
     src_fire_png : BOOLEAN,         \* "fire.png" in src
     alt_not_been_reached : BOOLEAN, \* "not been reached" in alt.lower()
     alt_has_been_reached : BOOLEAN] \* "has been reached" in alt.lower()

\* line 405-407
reached(img) ==
    /\ ~(img.src_fire_faded \/ img.alt_not_been_reached)
    /\ (img.src_fire_png \/ img.alt_has_been_reached)

\* A slip: the label compared without lower-casing it.
FireImage_caseSensitive(src, alt) ==
    [src_fire_faded |-> Contains(src, "fire-faded"),
     src_fire_png |-> Contains(src, "fire.png"),
     alt_not_been_reached |-> Contains(alt, "not been reached"),
     alt_has_been_reached |-> Contains(alt, "has been reached")]

\* 402-407: the four substring tests made on the attributes src and alt
FireImage(src, alt) ==
    [src_fire_faded |-> Contains(src, "fire-faded"),
     src_fire_png |-> Contains(src, "fire.png"),
     alt_not_been_reached |-> Contains(Lower(alt), "not been reached"),
     alt_has_been_reached |-> Contains(Lower(alt), "has been reached")]

\* Sample values of the src attribute, each with whether 'fire-faded' and
\* 'fire.png' occur in it.
SrcSamples ==
    { [text |-> "", faded |-> FALSE, fire |-> FALSE],
      [text |-> "https://www.redditstatic.com/streaks/fire.png", faded |-> FALSE, fire |-> TRUE],
      [text |-> "https://www.redditstatic.com/streaks/fire-faded.png", faded |-> TRUE, fire |-> FALSE],
      [text |-> "fire.png", faded |-> FALSE, fire |-> TRUE],
      [text |-> "fire-faded", faded |-> TRUE, fire |-> FALSE],
      [text |-> "/img/FIRE.PNG", faded |-> FALSE, fire |-> FALSE],
      [text |-> "/img/Fire-Faded.png", faded |-> FALSE, fire |-> FALSE],
      [text |-> "/img/fire.png?alt=fire-faded", faded |-> TRUE, fire |-> TRUE],
      [text |-> "/img/fire.svg", faded |-> FALSE, fire |-> FALSE],
      [text |-> "/img/fire-fade.png", faded |-> FALSE, fire |-> FALSE] }

\* Sample values of the alt attribute, each with whether 'not been reached'
\* and 'has been reached' occur in it when case is ignored.
AltSamples ==
    { [text |-> "", notReached |-> FALSE, hasReached |-> FALSE],
      [text |-> "Streak has been reached", notReached |-> FALSE, hasReached |-> TRUE],
      [text |-> "Streak has not been reached", notReached |-> TRUE, hasReached |-> FALSE],
      [text |-> "has been reached", notReached |-> FALSE, hasReached |-> TRUE],
      [text |-> "not been reached", notReached |-> TRUE, hasReached |-> FALSE],
      [text |-> "Daily goal HAS BEEN REACHED!", notReached |-> FALSE, hasReached |-> TRUE],
      [text |-> "Has Not Been Reached", notReached |-> TRUE, hasReached |-> FALSE],
      [text |-> "reached", notReached |-> FALSE, hasReached |-> FALSE],
      [text |-> "has been  reached", notReached |-> FALSE, hasReached |-> FALSE],
      [text |-> "It has been reached, it has not been reached", notReached |-> TRUE, hasReached |-> TRUE] }

StreakInputs ==
    {[fn |-> "check_streak_on_page", src |-> s, alt |-> a] : s \in SrcSamples, a \in AltSamples}

\* A slip: the two tests of run_streak_check in the other order.
streak_status_fireFirst(src, alt) ==
    IF Contains(src, "fire.png") \/ Contains(Lower(alt), "has been reached") THEN "reached"
    ELSE IF Contains(src, "fire-faded") \/ Contains(Lower(alt), "not been reached")
    THEN "not_reached"
    ELSE "unknown"

\* 497-502: the branch run_streak_check takes on the image it found
streak_status(src, alt) ==
    IF Contains(src, "fire-faded") \/ Contains(Lower(alt), "not been reached")
    THEN "not_reached"
    ELSE IF Contains(src, "fire.png") \/ Contains(Lower(alt), "has been reached") THEN "reached"
    ELSE "unknown"

\* The same sample images, as run_streak_check finds them (477-480).
StatusInputs ==
    {[fn |-> "run_streak_check", src |-> s, alt |-> a] : s \in SrcSamples, a \in AltSamples}

\* What a call of check_streak_on_page can do: raise (goto, load-state or
\* wait_for timeout) or return the classification of the image it found.
StreakOutcomes == {"raised"} \cup {IF reached(img) THEN "reached" ELSE "not_reached" : img \in FireImages}

\* line 255: `if reached and not config.get("test_mode")`
SkipUpvote_inverted(isReached, cfg) == isReached /\ cfg.test_mode

SkipUpvote(isReached, cfg) == isReached /\ ~cfg.test_mode

(***************************************************************************)
(* Listing page.  An entry is one element carrying a vote affordance; the  *)
(* fields are the attributes the five listing selectors read.              *)
(***************************************************************************)
ListingEntries ==
    { [container |-> "shreddit-post",    tag |-> "button", icon |-> TRUE,  aria |-> FALSE, role |-> FALSE],
      [container |-> "shreddit-post",    tag |-> "button", icon |-> FALSE, aria |-> TRUE,  role |-> FALSE],
      [container |-> "shreddit-post",    tag |-> "div",    icon |-> FALSE, aria |-> TRUE,  role |-> TRUE],
      [container |-> "shreddit-ad-post", tag |-> "button", icon |-> TRUE,  aria |-> FALSE, role |-> FALSE],
      [container |-> "shreddit-ad-post", tag |-> "div",    icon |-> FALSE, aria |-> TRUE,  role |-> FALSE],
      [container |-> "article",          tag |-> "button", icon |-> TRUE,  aria |-> FALSE, role |-> FALSE] }

ListingPages == SeqsUpTo(ListingEntries, MaxEntries)

IsAd(e) == e.container = "shreddit-ad-post"

\* 'shreddit-post button:has([icon-name="upvote"])'
ListingSel1(e) == e.container = "shreddit-post" /\ e.tag = "button" /\ e.icon
\* 'shreddit-post button[aria-label="upvote"]'
ListingSel2(e) == e.container = "shreddit-post" /\ e.tag = "button" /\ e.aria
\* 'shreddit-post [role="button"][aria-label="upvote"]'
ListingSel3(e) == e.container = "shreddit-post" /\ e.role /\ e.aria
\* 'button:has([icon-name="upvote"])'
ListingSel4(e) == e.tag = "button" /\ e.icon
\* 'button[aria-label="upvote"], [aria-label="upvote"]'
ListingSel5(e) == e.aria

ListingSel(k, e) ==
    CASE k = 1 -> ListingSel1(e)
      [] k = 2 -> ListingSel2(e)
      [] k = 3 -> ListingSel3(e)
      [] k = 4 -> ListingSel4(e)
      [] OTHER -> ListingSel5(e)

\* page.locator(selector k).all()
ListingAll(k, page) == SelectSeq(page, LAMBDA e : ListingSel(k, e))

\* lines 272-281: index of the locator whose result `upvotes` ends up holding
\* (0 when all five are empty); each `if not upvotes:` runs the next locator
ListingChainIndex(page) ==
    IF ListingAll(1, page) # << >> THEN 1
    ELSE IF ListingAll(2, page) # << >> THEN 2
    ELSE IF ListingAll(3, page) # << >> THEN 3
    ELSE IF ListingAll(4, page) # << >> THEN 4
    ELSE IF ListingAll(5, page) # << >> THEN 5
    ELSE 0

ListingChain(page) ==
    IF ListingChainIndex(page) = 0 THEN << >>
    ELSE ListingAll(ListingChainIndex(page), page)

\* What lines 272-281 leave in `upvotes`, and the locator that gave it, over
\* all listing pages.
ListingResults ==
    {[strategy |-> ListingChainIndex(page), upvotes |-> ListingChain(page)] : page \in ListingPages}

(***************************************************************************)
(* Post page.  A control is one <button>; its static fields say where it   *)
(* sits and how its markup shows the vote state of the entity it votes on. *)
(*   owner       "target": the opened post; "other": another votable item  *)
(*               of the page (a comment, a recommended post)               *)
(*   voteLoc     inside [data-post-click-location="vote"]                  *)
(*   inPost      inside <shreddit-post>                                    *)
(*   upvoteAttr  carries the attribute `upvote`                            *)
(*   icon        "none" | "static" (icon-name stays "upvote")              *)
(*               | "fill" (upvote -> upvote-fill once voted)               *)
(*               | "unvote" (upvote -> unvote once voted)                  *)
(*   aria        "none" | "static" (aria-label stays "upvote")             *)
(*               | "unvote" (upvote -> unvote once voted)                  *)
(*   pressedAttr aria-pressed follows the vote state                       *)
(***************************************************************************)
Posts == {"p1", "p2"}
Entities == Posts \cup {"other"}

Control(o, v, p, u, i, a, pr) ==
    [owner |-> o, voteLoc |-> v, inPost |-> p, upvoteAttr |-> u,
     icon |-> i, aria |-> a, pressedAttr |-> pr]

\* The catalogue of controls, in the order in which a page shows them: the
\* controls of the opened post come before those of other items.
Controls ==
    << Control("target", TRUE,  TRUE,  TRUE,  "fill",   "none",   TRUE),
       Control("target", TRUE,  TRUE,  FALSE, "fill",   "none",   TRUE),
       Control("target", TRUE,  TRUE,  TRUE,  "none",   "none",   FALSE),
       Control("target", FALSE, TRUE,  FALSE, "fill",   "none",   FALSE),
       Control("target", FALSE, TRUE,  FALSE, "static", "none",   TRUE),
       Control("target", FALSE, FALSE, FALSE, "fill",   "none",   FALSE),
       Control("target", FALSE, FALSE, FALSE, "unvote", "unvote", FALSE),
       Control("target", FALSE, FALSE, FALSE, "none",   "static", FALSE),
       Control("other",  FALSE, FALSE, TRUE,  "fill",   "none",   TRUE),
       Control("other",  FALSE, FALSE, FALSE, "static", "none",   FALSE) >>

IncreasingSeqs(n, m) ==
    {ix \in SeqsUpTo(1..n, m) : \A i \in 1..(Len(ix) - 1) : ix[i] < ix[i + 1]}

\* A page shows at most MaxControls controls of the catalogue.
PostPages ==
    {[i \in 1..Len(ix) |-> Controls[ix[i]]] : ix \in IncreasingSeqs(Len(Controls), MaxControls)}

EntityOf(c, tgt) == IF c.owner = "target" THEN tgt ELSE "other"

\* The element as the browser shows it while the account's votes are v.
Render(c, i, tgt, v) ==
    LET on == EntityOf(c, tgt) \in v IN
    [idx |-> i,
     entity |-> EntityOf(c, tgt),
     voteLoc |-> c.voteLoc,
     inPost |-> c.inPost,
     upvoteAttr |-> c.upvoteAttr,
     pressed |-> c.pressedAttr /\ on,
     icon_name |-> CASE c.icon = "none" -> "none"
                     [] c.icon = "static" -> "upvote"
                     [] c.icon = "fill" -> IF on THEN "upvote-fill" ELSE "upvote"
                     [] OTHER -> IF on THEN "unvote" ELSE "upvote",
     aria_label |-> CASE c.aria = "none" -> "none"
                      [] c.aria = "static" -> "upvote"
                      [] OTHER -> IF on THEN "unvote" ELSE "upvote"]

Dom(page, tgt, v) == [i \in 1..Len(page) |-> Render(page[i], i, tgt, v)]

\* lines 331, 333, 335: the three upvote locators of the post page
UpvoteSel(k, e) ==
    CASE k = 1 -> e.voteLoc /\ e.upvoteAttr
      [] k = 2 -> e.inPost /\ (e.icon_name = "upvote" \/ e.upvoteAttr)
      [] OTHER -> e.icon_name = "upvote" \/ e.upvoteAttr \/ e.aria_label = "upvote"

UpvoteAll(k, dom) == SelectSeq(dom, LAMBDA e : UpvoteSel(k, e))

UpvoteChainIndex(dom) ==
    IF UpvoteAll(1, dom) # << >> THEN 1
    ELSE IF UpvoteAll(2, dom) # << >> THEN 2
    ELSE IF UpvoteAll(3, dom) # << >> THEN 3
    ELSE 0

UpvoteChain(dom) ==
    IF UpvoteChainIndex(dom) = 0 THEN << >> ELSE UpvoteAll(UpvoteChainIndex(dom), dom)

\* lines 350-364: the eight reversal locators
ReversalSel(k, e) ==
    CASE k = 1 -> e.voteLoc /\ e.upvoteAttr /\ e.pressed
      [] k = 2 -> e.voteLoc /\ e.pressed
      [] k = 3 -> e.upvoteAttr /\ e.pressed
      [] k = 4 -> e.inPost /\ (e.icon_name = "upvote-fill" \/ (e.upvoteAttr /\ e.pressed))
      [] k = 5 -> e.inPost /\ e.pressed
      [] k = 6 -> e.icon_name = "upvote-fill" \/ (e.upvoteAttr /\ e.pressed)
      [] k = 7 -> e.icon_name = "unvote" \/ e.aria_label = "unvote"
      [] OTHER -> e.icon_name = "upvote" \/ e.aria_label = "upvote"

ReversalAll(k, dom) == SelectSeq(dom, LAMBDA e : ReversalSel(k, e))

ReversalChainIndex(dom) ==
    IF ReversalAll(1, dom) # << >> THEN 1
    ELSE IF ReversalAll(2, dom) # << >> THEN 2
    ELSE IF ReversalAll(3, dom) # << >> THEN 3
    ELSE IF ReversalAll(4, dom) # << >> THEN 4
    ELSE IF ReversalAll(5, dom) # << >> THEN 5
    ELSE IF ReversalAll(6, dom) # << >> THEN 6
    ELSE IF ReversalAll(7, dom) # << >> THEN 7
    ELSE IF ReversalAll(8, dom) # << >> THEN 8
    ELSE 0

ReversalChain(dom) ==
    IF ReversalChainIndex(dom) = 0 THEN << >> ELSE ReversalAll(ReversalChainIndex(dom), dom)

(***************************************************************************)
(* The three locator chains as the statements run them (272-281, 331-335,  *)
(* 350-364): the first locator is always evaluated, and each                *)
(* `if not <list>:` evaluates the next one only while the list is empty.    *)
(***************************************************************************)
Chains == {"listing", "upvote", "reversal"}

ChainLen(chain) ==
    CASE chain = "listing" -> 5
      [] chain = "upvote" -> 3
      [] OTHER -> 8

\* page.locator(<selector k of the chain>).all()
ChainAll(chain, k, dom) ==
    CASE chain = "listing" -> ListingAll(k, dom)
      [] chain = "upvote" -> UpvoteAll(k, dom)
      [] OTHER -> ReversalAll(k, dom)

\* A slip: every `if not <list>:` guard dropped, so each locator overwrites
\* the list.
RECURSIVE ChainRun_unguarded(_, _, _)
ChainRun_unguarded(chain, dom, k) ==
    IF k = 1
    THEN [found |-> ChainAll(chain, 1, dom), evaluated |-> <<1>>]
    ELSE LET prev == ChainRun_unguarded(chain, dom, k - 1) IN
         [found |-> ChainAll(chain, k, dom), evaluated |-> Append(prev.evaluated, k)]

\* The list and the locators evaluated so far, after the k-th statement.
RECURSIVE ChainRun(_, _, _)
ChainRun(chain, dom, k) ==
    IF k = 1
    THEN [found |-> ChainAll(chain, 1, dom), evaluated |-> <<1>>]
    ELSE LET prev == ChainRun(chain, dom, k - 1) IN
         IF prev.found = << >>
         THEN [found |-> ChainAll(chain, k, dom), evaluated |-> Append(prev.evaluated, k)]
         ELSE prev

\* The pages a chain can be run on.
PostDoms == {Dom(page, tgt, v) : page \in PostPages, tgt \in Posts, v \in SUBSET Entities}

ChainInputs ==
    {[fn |-> "locator_chain", chain |-> "listing", dom |-> d] : d \in ListingPages}
    \cup {[fn |-> "locator_chain", chain |-> c, dom |-> d] : c \in {"upvote", "reversal"}, d \in PostDoms}

\* The site's answer to a click on a vote control: the vote of the control's
\* entity is toggled.
Toggle(v, e) == IF e \in v THEN v \ {e} ELSE v \cup {e}

\* Which empty locator results end the run with `return False` (283-286,
\* 341-344) and which are only logged (370-371).
MissingControlAborts_all(step) == step \in {"listing", "upvote", "reversal"}

\* A slip: a post page without an upvote control is only logged.
MissingControlAborts_listingOnly(step) == step = "listing"

MissingControlAborts(step) == step \in {"listing", "upvote"}

(***************************************************************************)
(* Leaving run_upvote_flow.                                                *)
(***************************************************************************)
\* The finally clause (385-389): context.close(), then browser.close() when a
\* browser was launched.
FinallyCloses == IF browser = "none" THEN <<"context">> ELSE <<"context", "browser">>

\* A `return val` or a caught exception inside the try statement (249-389).
\* `pre` are the close() calls the returning branch made itself before its
\* return statement, `lines` what it logged.
LeaveTry(val, pre, lines) ==
    /\ closeLog' = closeLog \o pre \o FinallyCloses
    /\ upvotes' = << >>       \* the element handles go with the page
    /\ postPage' = << >>
    /\ context' = "closed"
    /\ browser' = IF browser = "none" THEN "none" ELSE "closed"
    /\ logged' = logged \cup lines
    /\ result' = val
    /\ pc' = "done"

\* except Exception (382-384): log and return False
Except == LeaveTry("false", << >>, {"exception"})

\* An exception between the launch and the try statement (198-247) is not
\* caught: it leaves through the `with sync_playwright()` block, whose exit stops
\* the driver, and reaches the caller.  No close() is called.
Propagate ==
    /\ context' = IF context = "open" THEN "killed" ELSE context
    /\ browser' = IF browser = "open" THEN "killed" ELSE browser
    /\ result' = "raised"
    /\ pc' = "done"
    /\ UNCHANGED <<closeLog, logged>>

(***************************************************************************)
(* The caller (main, 525-549) and the head of run_upvote_flow (174-196).   *)
(***************************************************************************)
\* 183: random.uniform(a, b) gives a value between its two arguments,
\* whichever is the larger
WaitDraws(a, b) == Min(a, b)..Max(a, b)

\* main calls run_upvote_flow once under test_mode and once per scheduled
\* trigger otherwise; an exception that leaves run_upvote_flow ends main.
StartRun ==
    /\ pc \in {"idle", "done"}
    /\ run < MaxRuns
    /\ run = 0 \/ (~config.test_mode /\ result # "raised")
    /\ run' = run + 1
    /\ pathExists' = FALSE
    /\ strategy' = "none"
    /\ attempted' = {}
    /\ cookies' = -1
    /\ injected' = 0
    /\ browser' = "none"
    /\ context' = "none"
    /\ closeLog' = << >>
    /\ beforeCheck' = "none"
    /\ afterCheck' = "none"
    /\ upvotes' = << >>
    /\ listingStrategy' = -1
    /\ choice' = -1
    /\ target' = "none"
    /\ postPage' = << >>
    /\ upvoteStrategy' = -1
    /\ reversalStrategy' = -1
    /\ navLog' = << >>
    /\ clickLog' = << >>
    /\ logged' = {}
    /\ slept' = -1
    /\ IF ~config.subreddits
       THEN \* 175-177
            /\ result' = "false" /\ pc' = "done"
            /\ wait_seconds' = -1 /\ draws' = 0
       ELSE IF ~config.wait.given
       THEN \* 181-182: config["wait_seconds_min"] raises KeyError
            /\ result' = "raised" /\ pc' = "done"
            /\ wait_seconds' = -1 /\ draws' = 0
       ELSE \* 183
            /\ wait_seconds' \in WaitDraws(config.wait.min, config.wait.max)
            /\ draws' = 1
            /\ result' = "none" /\ pc' = "auth"
    /\ UNCHANGED <<unitVars, schedVars, config, voted>>

(***************************************************************************)
(* Session bootstrap (197-247).                                            *)
(***************************************************************************)
\* 198-204, 217-223, 233-245: take one branch and launch its session
Launch ==
    /\ pc = "auth"
    /\ \E exists \in BOOLEAN :
         /\ config.cookies_file \/ ~exists
         /\ pathExists' = exists
         /\ LET s == SelectStrategy(config, exists) IN
            /\ strategy' = s
            /\ attempted' = attempted \cup {s}
            /\ browser' = IF s = "profile" THEN "none" ELSE "open"
            /\ context' = "open"
            /\ pc' = CASE s = "file" -> "load_file"
                       [] s = "chrome" -> "load_chrome"
                       [] OTHER -> "new_page"
    /\ UNCHANGED <<unitVars, schedVars, waitVars, config, run, cookies, injected, closeLog, checkVars, listingVars,
                   postVars, voted, navLog, clickLog, logged, result>>

\* 205-213: load_cookies_from_json / load_cookies_from_netscape_file; open()
\* and json.load raise on an unreadable or malformed file.  An empty result is
\* logged as a warning and the branch goes on to new_page.
LoadCookieFile ==
    /\ pc = "load_file"
    /\ \/ /\ Propagate
          /\ UNCHANGED <<cookies, injected>>
       \/ \E n \in 0..MaxCookies :
            /\ cookies' = n
            /\ IF n > 0
               THEN /\ pc' = "add_cookies"
                    /\ UNCHANGED logged
               ELSE /\ logged' = logged \cup {"no_cookies_in_file"}
                    /\ pc' = "new_page"
            /\ UNCHANGED <<injected, sessionVars, result>>
    /\ UNCHANGED <<unitVars, schedVars, waitVars, config, run, pathExists, strategy, attempted, checkVars, listingVars, postVars,
                   voted, navLog, clickLog>>

\* 224-228: load_cookies_from_chrome catches its own failures and returns []
LoadChromeCookies ==
    /\ pc = "load_chrome"
    /\ \E n \in 0..MaxCookies :
         /\ cookies' = n
         /\ IF NoCookiesAborts(strategy, n)
            THEN /\ closeLog' = closeLog \o <<"browser">>
                 /\ browser' = "closed"
                 /\ context' = "closed"
                 /\ logged' = logged \cup {"no_chrome_cookies"}
                 /\ result' = "false"
                 /\ pc' = "done"
            ELSE /\ pc' = "add_cookies"
                 /\ UNCHANGED <<sessionVars, logged, result>>
    /\ UNCHANGED <<unitVars, schedVars, waitVars, config, run, pathExists, strategy, attempted, injected, checkVars, listingVars,
                   postVars, voted, navLog, clickLog>>

\* 210, 229: context.add_cookies(cookies)
AddCookies ==
    /\ pc = "add_cookies"
    /\ \/ /\ injected' = cookies
          /\ pc' = "new_page"
          /\ UNCHANGED <<sessionVars, logged, result>>
       \/ /\ Propagate
          /\ UNCHANGED injected
    /\ UNCHANGED <<unitVars, schedVars, waitVars, config, run, pathExists, strategy, attempted, cookies, checkVars, listingVars,
                   postVars, voted, navLog, clickLog>>

\* 214-216, 231-232, 243-247: the page handle; the try statement is entered.
\* The list `cookies` is not read after this point.
NewPage ==
    /\ pc = "new_page"
    /\ cookies' = -1
    /\ injected' = 0
    /\ pc' = "before_check"
    /\ UNCHANGED <<unitVars, schedVars, waitVars, config, run, pathExists, strategy, attempted, sessionVars, checkVars, listingVars, postVars,
                   voted, navLog, clickLog, logged, result>>

(***************************************************************************)
(* The guarded flow (249-381).                                             *)
(***************************************************************************)
\* The flow goes on to its next step.
GoOn(next) ==
    /\ pc' = next
    /\ UNCHANGED <<sessionVars, logged, result>>

\* 250-261: the gating check, skipped without a streak URL
CheckStreakBefore_swallow ==
    /\ pc = "before_check"
    /\ IF ~config.streak_check_url
       THEN /\ GoOn("navigate")
            /\ UNCHANGED <<beforeCheck, navLog, upvotes, postPage>>
       ELSE \E out \in StreakOutcomes :
            /\ navLog' = Append(navLog, "streak")
            /\ beforeCheck' = out
            /\ IF SkipUpvote(out = "reached", config)
               THEN LeaveTry("true", << >>, {"skip_reached"})
               ELSE /\ GoOn("navigate")
                    /\ UNCHANGED <<upvotes, postPage>>
    /\ UNCHANGED <<unitVars, schedVars, waitVars, config, run, authVars, afterCheck, listingStrategy, choice, target,
                   upvoteStrategy, reversalStrategy, voted, clickLog>>

CheckStreakBefore ==
    /\ pc = "before_check"
    /\ IF ~config.streak_check_url
       THEN /\ GoOn("navigate")
            /\ UNCHANGED <<beforeCheck, navLog, upvotes, postPage>>
       ELSE \E out \in StreakOutcomes :
            /\ navLog' = Append(navLog, "streak")
            /\ beforeCheck' = out
            /\ IF out = "raised"
               THEN Except
               ELSE IF SkipUpvote(out = "reached", config)
               THEN LeaveTry("true", << >>, {"skip_reached"})
               ELSE /\ GoOn("navigate")
                    /\ UNCHANGED <<upvotes, postPage>>
    /\ UNCHANGED <<unitVars, schedVars, waitVars, config, run, authVars, afterCheck, listingStrategy, choice, target,
                   upvoteStrategy, reversalStrategy, voted, clickLog>>

\* 263-281: open the listing and run the listing locators
NavigateListing ==
    /\ pc = "navigate"
    /\ navLog' = Append(navLog, "listing")
    /\ \/ /\ Except
          /\ UNCHANGED listingStrategy
       \/ \E found \in ListingResults :
            /\ listingStrategy' = found.strategy
            /\ upvotes' = found.upvotes
            /\ GoOn("select_post")
            /\ UNCHANGED postPage
    /\ UNCHANGED <<unitVars, schedVars, waitVars, config, run, authVars, checkVars, choice, target, upvoteStrategy,
                   reversalStrategy, voted, clickLog>>

\* A slip: random.randint(0, n), both ends included.
ChoiceRange_inclusive(n) == 0..n

\* 290: random.randint(0, n - 1) if n > 0 else 0
ChoiceRange(n) == IF n > 0 THEN 0..(n - 1) ELSE {0}

\* 283-294: no candidate ends the run; otherwise one of the first three is
\* drawn and becomes `btn`
SelectPost ==
    /\ pc = "select_post"
    /\ IF MissingControlAborts("listing") /\ Len(upvotes) < 1
       THEN /\ LeaveTry("false", <<"context">>, {"no_upvote_buttons"})
            /\ UNCHANGED choice
       ELSE \E c \in ChoiceRange(Min(3, Len(upvotes))) :
            /\ choice' = c
            /\ IF c + 1 > Len(upvotes)
               THEN Except    \* upvotes[choice]: IndexError
               ELSE /\ GoOn("post_url")
                    /\ UNCHANGED <<upvotes, postPage>>
    /\ UNCHANGED <<unitVars, schedVars, waitVars, config, run, authVars, checkVars, listingStrategy, target,
                   upvoteStrategy, reversalStrategy, voted, navLog, clickLog>>

\* 296-322: read the permalink of the chosen post.  btn.evaluate answers a URL
\* or null, and an exception in it is swallowed (317-318); without a URL the
\* run ends.  The candidates are not used after this point.
ExtractPostUrl ==
    /\ pc = "post_url"
    /\ \E url \in Posts \cup {"none"} :
         /\ target' = url
         /\ IF url = "none"
            THEN /\ LeaveTry("false", <<"context">>, {"no_post_url"})
                 /\ UNCHANGED <<listingStrategy, choice>>
            ELSE /\ upvotes' = << >>
                 /\ listingStrategy' = -1
                 /\ choice' = -1
                 /\ GoOn("open_post")
                 /\ UNCHANGED postPage
    /\ UNCHANGED <<unitVars, schedVars, waitVars, config, run, authVars, checkVars, upvoteStrategy, reversalStrategy,
                   voted, navLog, clickLog>>

\* 324-328: open the post
OpenPost ==
    /\ pc = "open_post"
    /\ navLog' = Append(navLog, "post")
    /\ \/ Except
       \/ \E page \in PostPages :
            /\ postPage' = page
            /\ GoOn("upvote")
            /\ UNCHANGED upvotes
    /\ UNCHANGED <<unitVars, schedVars, waitVars, config, run, authVars, checkVars, listingStrategy, choice, target,
                   upvoteStrategy, reversalStrategy, voted, clickLog>>

\* A click on element e: whether e's entity is upvoted after it, the post the
\* run has selected and the number of navigations made when it happens.
Click(kind, e) ==
    [kind |-> kind, entity |-> e.entity, after |-> e.entity \notin voted,
     post |-> target, nav |-> Len(navLog)]

\* 331-344: locate the upvote control and click the first match
Upvote ==
    /\ pc = "upvote"
    /\ LET dom == Dom(postPage, target, voted)
           btns == UpvoteChain(dom) IN
       /\ upvoteStrategy' = UpvoteChainIndex(dom)
       /\ IF btns # << >>
          THEN \/ /\ clickLog' = Append(clickLog, Click("upvote", btns[1]))
                  /\ voted' = Toggle(voted, btns[1].entity)
                  /\ GoOn("wait")
                  /\ UNCHANGED <<upvotes, postPage>>
               \/ /\ UNCHANGED <<clickLog, voted>>
                  /\ Except
          ELSE /\ UNCHANGED <<clickLog, voted>>
               /\ IF MissingControlAborts("upvote")
                  THEN LeaveTry("false", <<"context">>, {"no_upvote_on_post"})
                  ELSE /\ GoOn("wait")
                       /\ UNCHANGED <<upvotes, postPage>>
    /\ UNCHANGED <<unitVars, schedVars, waitVars, config, run, authVars, checkVars, listingStrategy, choice, target,
                   reversalStrategy, navLog>>

\* A slip: the wait drawn again where it is used.
Wait_redraw ==
    /\ pc = "wait"
    /\ \E w \in WaitDraws(config.wait.min, config.wait.max) : slept' = w
    /\ draws' = draws + 1
    /\ pc' = "remove"
    /\ UNCHANGED <<unitVars, schedVars, wait_seconds, config, run, authVars, sessionVars, checkVars,
                   listingVars, postVars, voted, navLog, clickLog, logged, result>>

\* 346-347: time.sleep(wait_seconds)
Wait ==
    /\ pc = "wait"
    /\ slept' = wait_seconds
    /\ pc' = "remove"
    /\ UNCHANGED <<unitVars, schedVars, wait_seconds, draws, config, run, authVars, sessionVars,
                   checkVars, listingVars, postVars, voted, navLog, clickLog, logged, result>>

\* 349-371: locate the pressed control on the same page and click the first
\* match; no match is a warning.  The page is not looked at again.
RemoveUpvote ==
    /\ pc = "remove"
    /\ LET dom == Dom(postPage, target, voted)
           btns == ReversalChain(dom) IN
       /\ reversalStrategy' = ReversalChainIndex(dom)
       /\ IF btns # << >>
          THEN \/ /\ clickLog' = Append(clickLog, Click("removal", btns[1]))
                  /\ voted' = Toggle(voted, btns[1].entity)
                  /\ GoOn("after_check")
                  /\ postPage' = << >>
                  /\ UNCHANGED upvotes
               \/ /\ UNCHANGED <<clickLog, voted>>
                  /\ Except
          ELSE /\ UNCHANGED <<clickLog, voted>>
               /\ IF MissingControlAborts("reversal")
                  THEN LeaveTry("false", <<"context">>, {"no_unvote_on_post"})
                  ELSE /\ logged' = logged \cup {"upvote_may_still_be_active"}
                       /\ pc' = "after_check"
                       /\ postPage' = << >>
                       /\ UNCHANGED <<sessionVars, result, upvotes>>
    /\ UNCHANGED <<unitVars, schedVars, waitVars, config, run, authVars, checkVars, listingStrategy, choice, target,
                   upvoteStrategy, navLog>>

\* A slip: the recheck made without testing `if streak_check_url:`.
CheckStreakAfter_unconditional ==
    /\ pc = "after_check"
    /\ \E out \in StreakOutcomes :
         /\ navLog' = Append(navLog, "streak")
         /\ afterCheck' = out
         /\ IF out = "raised" THEN Except ELSE LeaveTry("true", << >>, {})
    /\ UNCHANGED <<unitVars, schedVars, waitVars, config, run, authVars, beforeCheck, listingStrategy, choice, target,
                   upvoteStrategy, reversalStrategy, voted, clickLog>>

\* 373-391: the recheck, skipped without a streak URL, then `return True`
CheckStreakAfter ==
    /\ pc = "after_check"
    /\ IF ~config.streak_check_url
       THEN /\ LeaveTry("true", << >>, {})
            /\ UNCHANGED <<afterCheck, navLog>>
       ELSE \E out \in StreakOutcomes :
            /\ navLog' = Append(navLog, "streak")
            /\ afterCheck' = out
            /\ IF out = "raised" THEN Except ELSE LeaveTry("true", << >>, {})
    /\ UNCHANGED <<unitVars, schedVars, waitVars, config, run, authVars, beforeCheck, listingStrategy, choice, target,
                   upvoteStrategy, reversalStrategy, voted, clickLog>>

\* No call of run_upvote_flow has been made yet.
FlowAtRest ==
    /\ pc = "idle"
    /\ run = 0
    /\ pathExists = FALSE
    /\ strategy = "none"
    /\ attempted = {}
    /\ cookies = -1
    /\ injected = 0
    /\ browser = "none"
    /\ context = "none"
    /\ closeLog = << >>
    /\ beforeCheck = "none"
    /\ afterCheck = "none"
    /\ upvotes = << >>
    /\ listingStrategy = -1
    /\ choice = -1
    /\ target = "none"
    /\ postPage = << >>
    /\ upvoteStrategy = -1
    /\ reversalStrategy = -1
    /\ voted = {}
    /\ navLog = << >>
    /\ clickLog = << >>
    /\ logged = {}
    /\ result = "none"
    /\ wait_seconds = -1
    /\ draws = 0
    /\ slept = -1

NotCalled == [called |-> FALSE]

\* No helper function is under test.
UnitsAtRest ==
    /\ input = [fn |-> "none"]
    /\ output = NotCalled

\* main is not looked at.
SchedulerAtRest ==
    /\ schedule = [run_now |-> FALSE, hour |-> 0, minute |-> 0]
    /\ now = 0
    /\ mpc = "off"
    /\ inFlight = 0
    /\ starts = 0
    /\ lastMinute = -1
    /\ sameMinute = FALSE
    /\ flowFrom = -1
    /\ startedDays = {}
    /\ inFlightDays = {}
    /\ cooldownDays = {}

Init ==
    /\ config \in Configs
    /\ FlowAtRest
    /\ UnitsAtRest
    /\ SchedulerAtRest

Next ==
    \/ StartRun
    \/ Launch
    \/ LoadCookieFile
    \/ LoadChromeCookies
    \/ AddCookies
    \/ NewPage
    \/ CheckStreakBefore
    \/ NavigateListing
    \/ SelectPost
    \/ ExtractPostUrl
    \/ OpenPost
    \/ Upvote
    \/ Wait
    \/ RemoveUpvote
    \/ CheckStreakAfter

Spec == Init /\ [][Next]_vars

(***************************************************************************)
(* The helper functions on their own: a call draws its arguments from a    *)
(* catalogue and the function is applied to them.                          *)
(***************************************************************************)
UnitConfig ==
    Resolve([subreddits |-> TRUE, reddit_username |-> FALSE, streak_check_url |-> FALSE,
             test_mode |-> FALSE, cookies_file |-> FALSE, use_chrome_cookies |-> "absent",
             wait |-> [given |-> TRUE, min |-> 2, max |-> 3]])

UnitInputs ==
    ChainInputs \cup StreakInputs \cup StatusInputs \cup JsonInputs \cup NetscapeInputs
    \cup ChromeInputs

\* 272-281, 331-335, 350-364: one locator chain run on one page
RunLocatorChain ==
    /\ input.fn = "locator_chain"
    /\ output = NotCalled
    /\ output' = ChainRun(input.chain, input.dom, ChainLen(input.chain))
    /\ UNCHANGED <<input, flowVars, schedVars>>

\* 400-407: the classification check_streak_on_page makes of the image it found
ClassifyStreak ==
    /\ input.fn = "check_streak_on_page"
    /\ output = NotCalled
    /\ output' = [reached |-> reached(FireImage(input.src.text, input.alt.text))]
    /\ UNCHANGED <<input, flowVars, schedVars>>

\* 477-502: the status run_streak_check logs for the image it found
ClassifyStatus ==
    /\ input.fn = "run_streak_check"
    /\ output = NotCalled
    /\ output' = [status |-> streak_status(input.src.text, input.alt.text)]
    /\ UNCHANGED <<input, flowVars, schedVars>>

\* 96-135: load_cookies_from_json on a file that parses
LoadJson ==
    /\ input.fn = "load_cookies_from_json"
    /\ output = NotCalled
    /\ output' = [cookies |-> load_cookies_from_json(input.data)]
    /\ UNCHANGED <<input, flowVars, schedVars>>

\* 138-169: load_cookies_from_netscape_file on a readable file
LoadNetscape ==
    /\ input.fn = "load_cookies_from_netscape_file"
    /\ output = NotCalled
    /\ output' = [cookies |-> load_cookies_from_netscape_file(
                                  [i \in 1..Len(input.entries) |-> LineText(input.entries[i])])]
    /\ UNCHANGED <<input, flowVars, schedVars>>

\* 66-93: load_cookies_from_chrome
LoadChrome ==
    /\ input.fn = "load_cookies_from_chrome"
    /\ output = NotCalled
    /\ output' = [cookies |-> load_cookies_from_chrome(input.jar)]
    /\ UNCHANGED <<input, flowVars, schedVars>>

UnitInit ==
    /\ config = UnitConfig
    /\ FlowAtRest
    /\ SchedulerAtRest
    /\ input \in UnitInputs
    /\ output = NotCalled

UnitNext ==
    \/ RunLocatorChain
    \/ ClassifyStreak
    \/ ClassifyStatus
    \/ LoadJson
    \/ LoadNetscape
    \/ LoadChrome

UnitSpec == UnitInit /\ [][UnitNext]_vars

(***************************************************************************)
(* main (512-549): one call under test_mode or run_now, otherwise the      *)
(* polling loop.  run_upvote_flow is seen from outside: it takes some time  *)
(* and returns or raises.  Time is counted in seconds.                      *)
(***************************************************************************)
SecondsPerMinute == 60
PollSleep == 30         \* time.sleep(30), line 549
CooldownSleep == 65     \* time.sleep(65), line 548

DaySeconds == HoursPerDay * MinutesPerHour * SecondsPerMinute

\* time.localtime(): the fields of the wall clock at time t
tm_hour(t) == (t \div (MinutesPerHour * SecondsPerMinute)) % HoursPerDay
tm_min(t) == (t \div SecondsPerMinute) % MinutesPerHour

\* How long a call of run_upvote_flow can take: no time, some seconds, more
\* than a minute, and (with a wait_seconds of that size, 181-183 and 347)
\* nearly a day.
RunSeconds == {0, 17, 95, DaySeconds - 20}

\* The day of time t, and the first second of the run_time minute of day d.
Day(t) == t \div DaySeconds
MinuteStart(d) ==
    d * DaySeconds + (schedule.hour * MinutesPerHour + schedule.minute) * SecondsPerMinute

\* The days whose run_time minute has a second in common with a..b.
MinuteDays(a, b) ==
    {d \in 0..(MaxDays + 1) :
        MinuteStart(d) <= b /\ a < MinuteStart(d) + SecondsPerMinute}

\* run_time as "hour:minute", and run_now
Schedules ==
    [run_now : BOOLEAN, hour : 0..(HoursPerDay - 1), minute : 0..(MinutesPerHour - 1)]

\* 527, 532, 546: main calls run_upvote_flow
CallFlow ==
    /\ inFlight' = inFlight + 1
    /\ starts' = starts + 1
    /\ sameMinute' = (sameMinute \/ lastMinute = now \div SecondsPerMinute)
    /\ lastMinute' = now \div SecondsPerMinute
    /\ flowFrom' = now
    /\ startedDays' = startedDays \cup {Day(now)}
    /\ UNCHANGED <<inFlightDays, cooldownDays>>
    /\ mpc' = "flow"

\* 525-540: the single call under test_mode or run_now, or the loop is entered
MainStart ==
    /\ mpc = "start"
    /\ IF config.test_mode \/ schedule.run_now
       THEN CallFlow
       ELSE /\ mpc' = "poll"
            /\ UNCHANGED <<inFlight, starts, lastMinute, sameMinute, dayVars>>
    /\ UNCHANGED <<flowVars, unitVars, schedule, now>>

\* 543-546: read the clock and compare it with run_time
Poll ==
    /\ mpc = "poll"
    /\ now < MaxDays * DaySeconds
    /\ IF tm_hour(now) = schedule.hour /\ tm_min(now) = schedule.minute
       THEN CallFlow
       ELSE /\ mpc' = "sleep"
            /\ UNCHANGED <<inFlight, starts, lastMinute, sameMinute, dayVars>>
    /\ UNCHANGED <<flowVars, unitVars, schedule, now>>

\* run_upvote_flow comes back: with a value, and main goes on (to `return`
\* at 528 and 533, to the cooldown at 548), or with an exception, which main
\* does not catch.
FlowEnds ==
    /\ mpc = "flow"
    /\ \E d \in RunSeconds, raised \in BOOLEAN :
         /\ now' = now + d
         /\ inFlight' = inFlight - 1
         /\ inFlightDays' = inFlightDays \cup MinuteDays(flowFrom, now + d)
         /\ mpc' = IF raised \/ config.test_mode \/ schedule.run_now THEN "exit" ELSE "cooldown"
    /\ UNCHANGED <<flowVars, unitVars, schedule, starts, lastMinute, sameMinute, flowFrom,
                   startedDays, cooldownDays>>

\* A slip: the loop without the sleep of line 548.
Cooldown_skipped ==
    /\ mpc = "cooldown"
    /\ mpc' = "sleep"
    /\ UNCHANGED <<flowVars, unitVars, schedule, now, inFlight, starts, lastMinute, sameMinute,
                   dayVars>>

\* 547-548: time.sleep(65) after a run
Cooldown ==
    /\ mpc = "cooldown"
    /\ now' = now + CooldownSleep
    /\ cooldownDays' =
           cooldownDays \cup MinuteDays(flowFrom, now + CooldownSleep + PollSleep - 1)
    /\ mpc' = "sleep"
    /\ UNCHANGED <<flowVars, unitVars, schedule, inFlight, starts, lastMinute, sameMinute,
                   flowFrom, startedDays, inFlightDays>>

\* 549: time.sleep(30), then the next turn of the loop
Sleep ==
    /\ mpc = "sleep"
    /\ now' = now + PollSleep
    /\ mpc' = "poll"
    /\ UNCHANGED <<flowVars, unitVars, schedule, inFlight, starts, lastMinute, sameMinute,
                   dayVars>>

\* main is started at any second of the first minute of the first day.
SchedInit ==
    /\ config \in {UnitConfig, [UnitConfig EXCEPT !.test_mode = TRUE]}
    /\ FlowAtRest
    /\ UnitsAtRest
    /\ schedule \in Schedules
    /\ now \in 0..(SecondsPerMinute - 1)
    /\ mpc = "start"
    /\ inFlight = 0
    /\ starts = 0
    /\ lastMinute = -1
    /\ sameMinute = FALSE
    /\ flowFrom = -1
    /\ startedDays = {}
    /\ inFlightDays = {}
    /\ cooldownDays = {}

SchedNext ==
    \/ MainStart
    \/ Poll
    \/ FlowEnds
    \/ Cooldown
    \/ Sleep

SchedSpec == SchedInit /\ [][SchedNext]_vars

(***************************************************************************)
(* Properties.                                                             *)
(***************************************************************************)
Range(f) == {f[i] : i \in DOMAIN f}

Returned == pc = "done"

\* C1: with a streak URL configured, a before-check that reports the streak
\* reached and test_mode unset, the run returns True, never opens the listing
\* and clicks nothing.
C1_SkipWhenReached ==
    (config.streak_check_url /\ beforeCheck = "reached" /\ ~config.test_mode)
        => /\ Returned
           /\ result = "true"
           /\ "listing" \notin Range(navLog)
           /\ "post" \notin Range(navLog)
           /\ clickLog = << >>

C1_Witness ==
    /\ Returned
    /\ config.streak_check_url /\ ~config.test_mode
    /\ beforeCheck = "reached"
    /\ result = "true"
    /\ navLog = <<"streak">>

\* C2: the recheck after the vote never changes the verdict: a run that
\* clicked the upvote and reached the recheck returns the same value (True)
\* whether the recheck reports reached, reports not reached, or fails.
C2_AfterCheckNeverChangesVerdict ==
    (Returned /\ Len(clickLog) >= 1 /\ afterCheck # "none") => result = "true"

\* C3: every run that launched a session has torn it down by the time it is
\* over, on every path: the context and, when one was launched, the browser
\* are closed, and no browser.close() comes before a context.close().
C3_TornDownOnEveryPath ==
    (Returned /\ context # "none")
        => /\ context = "closed"
           /\ browser \in {"none", "closed"}
           /\ \A i, j \in 1..Len(closeLog) :
                (closeLog[i] = "browser" /\ closeLog[j] = "context") => j < i

\* C4: run_upvote_flow always ends by returning a boolean; no exception
\* reaches its caller.
C4_AlwaysReturnsBoolean ==
    Returned => result \in {"true", "false"}

FileGaveNoCookies == "no_cookies_in_file" \in logged

ChromeGaveNoCookies == strategy = "chrome" /\ cookies = 0

\* C5 as stated: once the selected strategy has yielded no cookies, cookie
\* file or live extraction, the run navigates nowhere, clicks nothing and
\* returns False.
C5_NoCookiesAbortsRun ==
    (FileGaveNoCookies \/ ChromeGaveNoCookies)
        => /\ navLog = << >>
           /\ clickLog = << >>
           /\ Returned => result = "false"

\* C5 as amended: live extraction that returns no cookies ends the run with
\* failure before any navigation, click or cookie injection; a cookie file
\* without matching records is only logged as a warning and the run goes on
\* with a session into which no cookie was injected.
C5_ChromeNoCookiesAborts ==
    /\ ChromeGaveNoCookies
        => /\ Returned
           /\ result = "false"
           /\ navLog = << >>
           /\ clickLog = << >>
           /\ injected = 0
    /\ FileGaveNoCookies
        => /\ injected = 0
           /\ strategy = "file"
           /\ pc = "new_page" => result = "none"

C5_Witness ==
    /\ Returned
    /\ ChromeGaveNoCookies
    /\ result = "false"
    /\ "no_chrome_cookies" \in logged

\* C6: a run enters exactly one authentication branch, the one the fixed
\* priority gives (cookie file when a path is configured and the file exists,
\* else live extraction when use_chrome_cookies is on, else the persistent
\* profile), and enters no other branch after that one failed.
C6_OneStrategyByPriority ==
    /\ Cardinality(attempted) <= 1
    /\ strategy # "none" =>
        /\ attempted = {strategy}
        /\ strategy = "file" <=> (config.cookies_file /\ pathExists)
        /\ strategy = "chrome" <=> (~(config.cookies_file /\ pathExists) /\ config.use_chrome_cookies)
        /\ strategy = "profile" <=> (~(config.cookies_file /\ pathExists) /\ ~config.use_chrome_cookies)

C6_Witness ==
    /\ Returned
    /\ config.cookies_file /\ ~pathExists /\ config.use_chrome_cookies
    /\ strategy = "chrome"
    /\ result = "false"
    /\ attempted = {"chrome"}
    /\ ChromeGaveNoCookies

StepBeforeUpvoteFailed ==
    \/ beforeCheck = "raised"
    \/ listingStrategy = 0
    \/ "no_post_url" \in logged

\* C7: when the gating check raised, or no vote control was found on the
\* listing, or no permalink could be read, the run returns False and has
\* clicked no vote control.
C7_NoClickAfterEarlyFailure ==
    StepBeforeUpvoteFailed
        => /\ clickLog = << >>
           /\ "post" \notin Range(navLog)
           /\ pc \in {"select_post", "done"}
           /\ Returned => result = "false"

C7_Witness ==
    /\ Returned
    /\ beforeCheck = "raised"
    /\ result = "false"
    /\ clickLog = << >>

\* C8: when the upvote click succeeded and all eight reversal locators are
\* empty, the run logs the warning, makes no removal click, leaves the vote as
\* the upvote click set it and, unless the recheck raises, returns True.
C8_MissingReversalIsWarning ==
    (reversalStrategy = 0 /\ Len(clickLog) >= 1)
        => /\ Len(clickLog) = 1
           /\ clickLog[1].kind = "upvote"
           /\ (clickLog[1].entity \in voted) <=> clickLog[1].after
           /\ "upvote_may_still_be_active" \in logged
           /\ pc \in {"after_check", "done"}
           /\ (Returned /\ afterCheck # "raised") => result = "true"

C8_Witness ==
    /\ Returned
    /\ reversalStrategy = 0
    /\ Len(clickLog) = 1
    /\ clickLog[1].entity = target
    /\ target \in voted
    /\ result = "true"

\* C9: a run that completed normally (it returned True after casting an upvote
\* on the opened post and clicking a removal control) leaves that post not
\* upvoted.
C9_ReversalCancelsOwnUpvote ==
    (/\ Returned
     /\ result = "true"
     /\ Len(clickLog) = 2
     /\ clickLog[1].entity = target
     /\ clickLog[1].after)
        => target \notin voted

\* C10: no candidate in `upvotes` is an advertising entry, whichever listing
\* locator produced the list.
C10_NoAdCandidate ==
    \A i \in 1..Len(upvotes) : ~IsAd(upvotes[i])

Upto(k) == [i \in 1..k |-> i]

\* The locators of a chain that match while every locator listed before them
\* matches nothing (at most one).
FirstMatching(chain, dom) ==
    {k \in 1..ChainLen(chain) :
        /\ ChainAll(chain, k, dom) # << >>
        /\ \A j \in 1..(k - 1) : ChainAll(chain, j, dom) = << >>}

\* C11: each locator chain evaluates its locators in the listed order and
\* ends with the result of the first one that matches at least one element,
\* evaluating none of the later ones; when none matches it ends with the empty
\* list after evaluating all of them, and that list is what the flow tests.
C11_FirstMatchWins ==
    (input.fn = "locator_chain" /\ output # NotCalled) =>
        LET chain == input.chain
            dom == input.dom
            first == FirstMatching(chain, dom) IN
        /\ \A k \in first :
              /\ output.found = ChainAll(chain, k, dom)
              /\ output.evaluated = Upto(k)
        /\ first = {} =>
              /\ output.found = << >>
              /\ output.evaluated = Upto(ChainLen(chain))
        /\ output.found = CASE chain = "listing" -> ListingChain(dom)
                             [] chain = "upvote" -> UpvoteChain(dom)
                             [] OTHER -> ReversalChain(dom)

C11_Witness ==
    /\ input.fn = "locator_chain"
    /\ input.chain = "reversal"
    /\ output # NotCalled
    /\ output.evaluated = <<1, 2, 3>>
    /\ output.found # << >>
    /\ ChainAll("reversal", 7, input.dom) # << >>
    /\ ChainAll("reversal", 7, input.dom) # output.found

\* C12: without a streak URL, a run in which the upvote locator and the
\* reversal locator both matched and nothing raised returns True after exactly
\* one navigation to the listing, one to the post page, one upvote click and
\* one removal click, in that order, and makes no streak check.
C12_PlainRunWithoutStreakUrl ==
    (/\ Returned
     /\ ~config.streak_check_url
     /\ upvoteStrategy > 0
     /\ reversalStrategy > 0
     /\ "exception" \notin logged)
        => /\ result = "true"
           /\ navLog = <<"listing", "post">>
           /\ Len(clickLog) = 2
           /\ clickLog[1].kind = "upvote"
           /\ clickLog[2].kind = "removal"
           /\ beforeCheck = "none"
           /\ afterCheck = "none"

C12_Witness ==
    /\ Returned
    /\ ~config.streak_check_url
    /\ upvoteStrategy > 0
    /\ reversalStrategy > 0
    /\ result = "true"
    /\ navLog = <<"listing", "post">>
    /\ Len(clickLog) = 2

\* C13: the removal click goes to the post that received the upvote click:
\* no navigation and no re-selection lies between the two clicks, and the
\* control clicked for removal belongs to the entity the upvote click hit.
C13_RemovalTargetsUpvotedPost ==
    Len(clickLog) = 2
        => /\ clickLog[1].kind = "upvote" /\ clickLog[2].kind = "removal"
           /\ clickLog[2].nav = clickLog[1].nav
           /\ clickLog[2].post = clickLog[1].post
           /\ clickLog[2].entity = clickLog[1].entity

\* The part of C13 that the code keeps: same page, same selected post.
C13_SamePageSameSelection ==
    Len(clickLog) = 2
        => /\ clickLog[1].kind = "upvote" /\ clickLog[2].kind = "removal"
           /\ clickLog[2].nav = clickLog[1].nav
           /\ clickLog[2].post = clickLog[1].post

\* C14: once an index has been drawn there is at least one candidate and the
\* index lies in [0, min(3, n) - 1] for the n candidates found; with no
\* candidate (n = 0) no index is drawn and the run returns False through the
\* explicit return, not through an exception.
C14_ChoiceAmongFirstThree ==
    /\ pc = "post_url"
        => /\ Len(upvotes) >= 1
           /\ 0 <= choice
           /\ choice <= Min(3, Len(upvotes)) - 1
    /\ listingStrategy = 0
        => /\ upvotes = << >>
           /\ choice = -1
           /\ "exception" \notin logged
           /\ Returned => (result = "false" /\ "no_upvote_buttons" \in logged)

C14_Witness ==
    /\ pc = "post_url"
    /\ Len(upvotes) > 3
    /\ choice = 2

\* C15: check_streak_on_page reports the streak reached exactly when neither
\* 'fire-faded' occurs in src nor 'not been reached' in the label with case
\* ignored, and 'fire.png' occurs in src or 'has been reached' in the label
\* with case ignored; the faded marker wins over 'has been reached', and an
\* image with no marker is not reached.
C15_StreakClassification ==
    (input.fn = "check_streak_on_page" /\ output # NotCalled) =>
        /\ output.reached <=>
              (/\ ~(input.src.faded \/ input.alt.notReached)
               /\ (input.src.fire \/ input.alt.hasReached))
        /\ (input.src.faded /\ input.alt.hasReached) => ~output.reached
        /\ (~input.src.faded /\ ~input.src.fire /\ ~input.alt.notReached /\ ~input.alt.hasReached)
              => ~output.reached

C15_Witness ==
    /\ input.fn = "check_streak_on_page"
    /\ output # NotCalled
    /\ input.src.text = "https://www.redditstatic.com/streaks/fire-faded.png"
    /\ input.alt.text = "Daily goal HAS BEEN REACHED!"
    /\ ~output.reached

\* The entries of an exported list that the loader keeps.
KeptEntries(data) == SelectSeq(data, LAMBDA c : c.domain.matches)

\* C16: load_cookies_from_json maps sameSite without regard to case: any
\* capitalisation of no_restriction gives None, of strict gives Strict, of lax
\* gives Lax, and any other or absent value gives Lax.
C16_SameSiteIgnoresCase ==
    (input.fn = "load_cookies_from_json" /\ output # NotCalled) =>
        LET kept == KeptEntries(input.data) IN
        /\ Len(output.cookies) = Len(kept)
        /\ \A i \in 1..Len(kept) :
              output.cookies[i].sameSite =
                  CASE kept[i].sameSite.spells = "no_restriction" -> "None"
                    [] kept[i].sameSite.spells = "strict" -> "Strict"
                    [] OTHER -> "Lax"

\* What the code does: only the lower-case spellings are mapped.
C16_SameSiteExactKeys ==
    (input.fn = "load_cookies_from_json" /\ output # NotCalled) =>
        LET kept == KeptEntries(input.data) IN
        /\ Len(output.cookies) = Len(kept)
        /\ \A i \in 1..Len(kept) :
              output.cookies[i].sameSite =
                  IF ~kept[i].sameSite.given THEN "Lax"
                  ELSE CASE kept[i].sameSite.text = "no_restriction" -> "None"
                         [] kept[i].sameSite.text = "strict" -> "Strict"
                         [] OTHER -> "Lax"

\* The lines of a cookies.txt that are cookie lines of seven or more fields
\* with a matching domain.
CookieLines(entries) == SelectSeq(entries, LAMBDA e : e.kind = "cookie" /\ e.domain.matches)

\* C17: load_cookies_from_netscape_file gives no record for a line of fewer
\* than seven fields, for a comment or for an empty line, and goes on with the
\* next line; for each line of seven or more fields with a matching domain it
\* gives exactly one record, whose value is the text after the sixth tab as it
\* stands: tabs inside, in front and at the end are kept, and so is the empty
\* value.
C17_NetscapeValueVerbatim ==
    (input.fn = "load_cookies_from_netscape_file" /\ output # NotCalled) =>
        LET want == CookieLines(input.entries) IN
        /\ Len(output.cookies) = Len(want)
        /\ \A i \in 1..Len(want) : output.cookies[i].value = want[i].value

\* What the code keeps of C17: in a file whose values do not end in white
\* space, short lines, comments and empty lines add nothing and every cookie
\* line gives its value as it stands, tabs inside and in front included.
C17_ValuesNotEndingInSpace ==
    (/\ input.fn = "load_cookies_from_netscape_file"
     /\ output # NotCalled
     /\ \A i \in 1..Len(input.entries) :
          input.entries[i].kind = "cookie" => input.entries[i].value \in {"abc", "a\tb", "\tab", "a b"})
        => LET want == CookieLines(input.entries) IN
           /\ Len(output.cookies) = Len(want)
           /\ \A i \in 1..Len(want) : output.cookies[i].value = want[i].value

\* The domain the claim gives the cookie made from a sample domain.
Dotted(d) == IF d.dotted THEN d.text ELSE "." \o d.text

BeginsWithDot(domain) == Len(domain) >= 1 /\ SubSeq(domain, 1, 1) = "."

\* C20: every cookie that load_cookies_from_chrome, load_cookies_from_json or
\* load_cookies_from_netscape_file emits has a domain that begins with a dot:
\* the domain read, as it is when it begins with a dot, and with one dot put
\* in front otherwise.
C20_DomainBeginsWithDot ==
    /\ (input.fn = "load_cookies_from_chrome" /\ output # NotCalled) =>
          /\ Len(output.cookies) = Len(input.jar.cookies)
          /\ \A i \in 1..Len(output.cookies) :
                /\ BeginsWithDot(output.cookies[i].domain)
                /\ output.cookies[i].domain = Dotted(input.jar.cookies[i].domain)
    /\ (input.fn = "load_cookies_from_json" /\ output # NotCalled) =>
          LET kept == KeptEntries(input.data) IN
          /\ Len(output.cookies) = Len(kept)
          /\ \A i \in 1..Len(output.cookies) :
                /\ BeginsWithDot(output.cookies[i].domain)
                /\ output.cookies[i].domain = Dotted(kept[i].domain)
    /\ (input.fn = "load_cookies_from_netscape_file" /\ output # NotCalled) =>
          \A i \in 1..Len(output.cookies) :
              /\ BeginsWithDot(output.cookies[i].domain)
              /\ \E j \in 1..Len(input.entries) :
                    /\ input.entries[j].kind = "cookie"
                    /\ input.entries[j].domain.matches
                    /\ output.cookies[i].domain = Dotted(input.entries[j].domain)

C20_Witness ==
    /\ input.fn = "load_cookies_from_netscape_file"
    /\ output # NotCalled
    /\ Len(input.entries) = 2
    /\ Len(output.cookies) = 2
    /\ input.entries[1].domain.text = ".reddit.com"
    /\ input.entries[2].domain.text = "www.reddit.com"
    /\ output.cookies[1].domain = ".reddit.com"
    /\ output.cookies[2].domain = ".www.reddit.com"

\* C18: the loop of main calls run_upvote_flow at most once in any one
\* minute of the wall clock, only in a minute whose hour and minute are those
\* of run_time, and never while an earlier call has not come back.
C18_OneStartPerMinute ==
    /\ ~sameMinute
    /\ inFlight \in {0, 1}
    /\ inFlight = 1 <=> mpc = "flow"
    /\ (lastMinute # -1 /\ ~config.test_mode /\ ~schedule.run_now) =>
          /\ lastMinute % MinutesPerHour = schedule.minute
          /\ (lastMinute \div MinutesPerHour) % HoursPerDay = schedule.hour

C18_Witness ==
    /\ ~config.test_mode /\ ~schedule.run_now
    /\ starts = 2
    /\ mpc = "poll"
    /\ now \div SecondsPerMinute = lastMinute + 1

\* C19: a run draws its wait once, before the session is opened; with
\* wait_seconds_min <= wait_seconds_max the wait lies between the two, and
\* equals them when they are equal; the removal is attempted only after the
\* run has slept that wait since the upvote click.
C19_WaitDrawnOnceWithinRange ==
    /\ draws <= 1
    /\ wait_seconds # -1 <=> draws = 1
    /\ (wait_seconds # -1 /\ config.wait.min <= config.wait.max) =>
          /\ config.wait.min <= wait_seconds
          /\ wait_seconds <= config.wait.max
    /\ (wait_seconds # -1 /\ config.wait.min = config.wait.max) =>
          wait_seconds = config.wait.min
    /\ reversalStrategy # -1 =>
          /\ draws = 1
          /\ Len(clickLog) >= 1
          /\ slept = wait_seconds
    /\ (slept = -1 /\ pc # "idle") => \A i \in 1..Len(clickLog) : clickLog[i].kind # "removal"

C19_Witness ==
    /\ Returned
    /\ result = "true"
    /\ config.wait.min = 2 /\ config.wait.max = 3
    /\ wait_seconds = 3
    /\ slept = 3
    /\ Len(clickLog) = 2
    /\ clickLog[2].kind = "removal"

\* The run took the skip branch of the gating check (254-256).
SkippedAsReached == config.streak_check_url /\ beforeCheck = "reached" /\ ~config.test_mode

\* C21: a run that returns True either was skipped because the gating check
\* reported the streak reached with test_mode unset, and then clicked nothing,
\* or clicked an upvote control on the opened post page; no other run returns
\* True.
C21_SuccessMeansSkipOrUpvote ==
    (Returned /\ result = "true") =>
        \/ /\ SkippedAsReached
           /\ clickLog = << >>
        \/ /\ ~SkippedAsReached
           /\ Len(clickLog) >= 1
           /\ clickLog[1].kind = "upvote"
           /\ clickLog[1].nav >= 1
           /\ navLog[clickLog[1].nav] = "post"

C21_Witness ==
    /\ Returned
    /\ result = "true"
    /\ config.streak_check_url /\ config.test_mode
    /\ beforeCheck = "reached"
    /\ Len(clickLog) = 1
    /\ clickLog[1].kind = "upvote"
    /\ navLog[clickLog[1].nav] = "post"
    /\ reversalStrategy = 0

\* C22: on every image, check_streak_on_page reports the streak reached
\* exactly when run_streak_check takes its 'Reached today' branch, and not
\* reached exactly when run_streak_check takes its 'NOT reached' or its
\* 'unknown' branch.
C22_ClassifiersAgree ==
    (input.fn = "run_streak_check" /\ output # NotCalled) =>
        LET isReached == reached(FireImage(input.src.text, input.alt.text)) IN
        /\ isReached <=> output.status = "reached"
        /\ ~isReached <=> output.status \in {"not_reached", "unknown"}
        /\ output.status = "unknown" <=>
              (~input.src.faded /\ ~input.src.fire /\ ~input.alt.notReached /\ ~input.alt.hasReached)

C22_Witness ==
    /\ input.fn = "run_streak_check"
    /\ output # NotCalled
    /\ input.src.text = "/img/fire.png?alt=fire-faded"
    /\ input.alt.text = "has been reached"
    /\ output.status = "not_reached"
    /\ ~reached(FireImage(input.src.text, input.alt.text))

\* main is in its polling loop (542-549) and has not ended.
LoopRunning ==
    /\ ~config.test_mode /\ ~schedule.run_now
    /\ mpc \in {"poll", "flow", "cooldown", "sleep"}

\* The run_time minute of day d is over.
MinutePassed(d) == now >= MinuteStart(d) + SecondsPerMinute

\* C23: on every day on which main is in its loop and no call of
\* run_upvote_flow is in flight during the run_time minute, a poll falls
\* inside that minute and run_upvote_flow is started on that day.  A call for
\* day d can only be made inside its run_time minute, so once that minute is
\* over the day has its call or never gets it.
C23_StartedEveryDay ==
    LoopRunning =>
        \A d \in 0..(MaxDays - 1) :
            (MinutePassed(d) /\ d \notin inFlightDays) => d \in startedDays

\* What the loop does give: the day has its call unless its run_time minute
\* had a call in flight or fell in the 95 seconds main sleeps after one.
C23_StartedUnlessCoolingDown ==
    LoopRunning =>
        \A d \in 0..(MaxDays - 1) :
            (MinutePassed(d) /\ d \notin inFlightDays /\ d \notin cooldownDays)
                => d \in startedDays

\* Both days of the loop got their call.
C23_BothDaysStarted ==
    /\ LoopRunning
    /\ MinutePassed(1)
    /\ startedDays = {0, 1}
    /\ inFlightDays = {0, 1}
    /\ mpc = "poll"

====
